---- MODULE Spec2Model ----
(***************************************************************************)
(* Model of the key server (axdhill/keyserver): the user registry and the  *)
(* API-key table (routes/auth.ts, middleware/auth.ts), the user            *)
(* key-retrieval routes (routes/keys.ts), the rate limiters                *)
(* (middleware/security.ts, index.ts), the App registry and gate           *)
(* (middleware/appAuth.ts, routes/apps.ts) and the management script       *)
(* (scripts/manage-apps.ts).                                               *)
(*                                                                         *)
(* A request handler that awaits bcrypt is two actions, one up to the      *)
(* await and one from it: the bcrypt result arrives in a later turn of the *)
(* event loop. A middleware chain that only awaits the in-memory           *)
(* rate-limit store runs within one turn, and is one action.               *)
(* Random 256-bit keys and UUIDs are fresh values drawn from counters.     *)
(***************************************************************************)
EXTENDS Integers, FiniteSets, Sequences, Bags, TLC

VARIABLES
    users,          \* routes/auth.ts: users Map, username -> user object (0: absent)
    userObjs,       \* the user objects on the heap, by user id
    validApiKeys,   \* process.env.VALID_API_KEYS, parsed: api key -> user id
    nextUid,        \* number of crypto.randomUUID() values drawn for users
    nextKey,        \* number of generateApiKey() values drawn
    inflight,       \* bag of the handlers suspended at `await`
    env,            \* process.env: ENCRYPTION_SECRET set?, which service keys are set,
                    \* NODE_ENV
    hits,           \* rate-limit stores: limiter -> key -> [count, resetTime]
    now,            \* Date.now(), in ms
    last,           \* the last response sent
    retired,        \* history: api keys retired by a successful rotate-api-key
    created,        \* history: per username, number of 201 answers of /register
    file,           \* config/apps.json, parsed: app api key -> App record
    appsCache,      \* middleware/appAuth.ts: appsCache of the server process
    cacheTimestamp, \* middleware/appAuth.ts: cacheTimestamp
    nextApp,        \* number of app ids / app api keys drawn
    granted,        \* history: per app, requests let through the gate in its window
    disk,           \* apps.json on disk: "ok", "readfail" (reading or parsing it
                    \* throws) or "writefail" (writing it throws)
    written,        \* history: the script's writes, app api key -> [op, at]
    script,         \* the manage-apps process between its read and its write
    crypt,          \* one use of encryptKey and decryptKey: inputs, envelope, result
    bearer          \* the last request validateJWT has seen: header, answer, req.user

vars == <<users, userObjs, validApiKeys, nextUid, nextKey, inflight, env, hits,
          now, last, retired, created, file, appsCache, cacheTimestamp, nextApp,
          granted, disk, written, script, crypt, bearer>>

AppUnchanged == UNCHANGED <<file, appsCache, cacheTimestamp, nextApp, granted, disk,
                            written, script, crypt, bearer>>

-----------------------------------------------------------------------------
(* Bounds of the model *)

MaxUids == 2        \* user ids drawn
MaxKeys == 2        \* user api keys drawn
MaxInflight == 2    \* requests suspended at the same time

(* Inputs *)

Usernames == {"alice", "bob"}
Passwords == {"pw1", "pw2"}
Missing == ""                     \* an absent (falsy) body field
MASTER_KEY == "master"            \* process.env.MASTER_KEY
Services == {"openai", "anthropic"}
KeyRoutes == {"openai", "anthropic", "all"}
ClientIPs == {"10.0.0.5", "10.0.0.9"}

(* Api keys. A key is a record so that every key compares with every other. *)
KsKey(n) == [kind |-> "ks", n |-> n]          \* `ks_<64 hex>`, the n-th drawn
\* a faulty generator, against which C26 is tested: no prefix of its own
AppKeyPlain(n) == KsKey(n)
AppKey(n) == [kind |-> "app", n |-> n]        \* `app_<64 hex>`, the n-th drawn
NoKey == [kind |-> "none", n |-> 0]           \* header absent
ProtoKey == [kind |-> "proto", n |-> 0]       \* the header value "constructor"
BogusKey == KsKey(0)                          \* a well-formed key never issued
EncSecret == [kind |-> "env", n |-> 0]        \* process.env.ENCRYPTION_SECRET

UserKeyHeaders == {NoKey, ProtoKey, BogusKey} \cup {KsKey(n) : n \in 1..MaxKeys}

(* JavaScript values of a table lookup *)
Undefined == 0
ObjectCtor == -1     \* Object.prototype.constructor, reached through the prototype

\* obj[k] on an object made by JSON.parse: own properties first, then
\* Object.prototype ("constructor" is found there, and is truthy).
JsGet(obj, k) ==
    IF k \in DOMAIN obj THEN obj[k]
    ELSE IF k = ProtoKey THEN ObjectCtor
    ELSE Undefined

Truthy(v) == v # Undefined

\* obj with obj[k] = v assigned
JsSet(obj, k, v) == [x \in DOMAIN obj \cup {k} |-> IF x = k THEN v ELSE obj[x]]

\* obj after `delete obj[k]`
JsDelete(obj, k) == [x \in DOMAIN obj \ {k} |-> obj[x]]

\* bcrypt.hash(password, 12): modelled as an injective tag of the password
hashPassword(password) == <<"bcrypt", password>>

\* bcrypt.compare(password, hash)
verifyPassword(password, hash) == hashPassword(password) = hash

-----------------------------------------------------------------------------
(* Requests and responses *)

\* a suspended handler: which one, and the locals it holds
Req(op, username, password, uid) ==
    [op |-> op, username |-> username, password |-> password, uid |-> uid]

NoSecret == NoKey

\* a response: the route, the status, the api key sent or returned, the secret
\* of the envelope it carries (stale is history: the key of the request had
\* been retired by a rotation when the gate checked it; known: the key was a
\* key of the credential store when the gate checked it)
Resp(op, status, ip, key, secret, stale, known) ==
    [op |-> op, status |-> status, ip |-> ip, key |-> key, secret |-> secret,
     stale |-> stale, known |-> known, error |-> "", route |-> "", envelopes |-> {},
     origin |-> <<>>, trail |-> <<>>]

NoResp == Resp("none", 0, "", NoKey, NoSecret, FALSE, FALSE)

\* history: what a gate did with a request: it sent a response ("send"), called
\* next() ("next"), or raised an exception it does not catch ("throw")
GateEvent(gate, did) == [gate |-> gate, did |-> did]

Pending == BagToSet(inflight)
HasFreeSlot == BagCardinality(inflight) < MaxInflight
Suspend(r) == inflight (+) SetToBag({r})
Resume(r) == inflight (-) SetToBag({r})

\* number of suspended handlers among the kinds in S
CountPending(S) ==
    LET Sum[T \in SUBSET S] ==
            IF T = {} THEN 0
            ELSE LET x == CHOOSE y \in T : TRUE
                 IN CopiesIn(x, inflight) + Sum[T \ {x}]
    IN Sum[S]

\* handlers suspended that will draw an api key when they resume
DrawsKey(r) == r.op \in {"register", "rotate"}
KeysReserved == CountPending({r \in Pending : DrawsKey(r)})

EmptyTable == [k \in {} |-> 0]

\* validateJWT has not been called
NoBearer == [header |-> [scheme |-> "none"], status |-> 0, error |-> "",
             user |-> [userId |-> 0, username |-> ""], at |-> 0, trail |-> <<>>]

\* neither encryptKey nor decryptKey has been called
NoCrypt == [stage |-> "idle", key |-> <<>>, secret |-> <<>>,
            encryptedData |-> [json |-> "null"], tampering |-> "none",
            secret2 |-> <<>>, result |-> [ok |-> FALSE, value |-> <<>>, error |-> ""],
            body |-> [encryptedData |-> "", secret |-> ""],
            response |-> [status |-> 0, error |-> "", keyPrefix |-> <<>>]]

\* the manage-apps process is not running
ScriptIdle == [op |-> "idle", name |-> "", key |-> NoKey, config |-> EmptyTable]

\* appsCache: null until the first load
NoCache == [loaded |-> FALSE, apps |-> EmptyTable]

-----------------------------------------------------------------------------
Init ==
    /\ users = [u \in Usernames |-> 0]
    /\ userObjs = EmptyTable
    /\ validApiKeys = EmptyTable
    /\ nextUid = 0
    /\ nextKey = 0
    /\ inflight = EmptyBag
    /\ env \in [encSecret : BOOLEAN, configured : {{"openai"}, Services},
                nodeEnv : {"production", "development"}]
    /\ hits = EmptyTable
    /\ now = 0
    /\ last = NoResp
    /\ retired = {}
    /\ created = [u \in Usernames |-> 0]
    /\ file = EmptyTable
    /\ appsCache = NoCache
    /\ cacheTimestamp = 0
    /\ nextApp = 0
    /\ granted = EmptyTable
    /\ disk = "ok"
    /\ written = EmptyTable
    /\ script = ScriptIdle
    /\ crypt = NoCrypt
    /\ bearer = NoBearer

-----------------------------------------------------------------------------
(* routes/auth.ts *)

UserUnchanged == UNCHANGED <<users, userObjs, validApiKeys, nextUid, nextKey,
                             retired, created>>
EnvUnchanged == AppUnchanged /\ UNCHANGED <<env, hits, now>>

\* POST /register up to `await hashPassword(password)`
RegisterHandler(username, password, masterKey) ==
    /\ HasFreeSlot
    /\ AppUnchanged
    /\ UNCHANGED <<env, now>>
    /\ UNCHANGED <<users, userObjs, validApiKeys, nextKey, retired, created>>
    /\ IF username = Missing \/ password = Missing \/ masterKey = Missing
       THEN /\ last' = Resp("register", 400, "", NoKey, NoSecret, FALSE, FALSE)
            /\ UNCHANGED <<inflight, nextUid>>
       ELSE IF masterKey # MASTER_KEY
       THEN /\ last' = Resp("register", 403, "", NoKey, NoSecret, FALSE, FALSE)
            /\ UNCHANGED <<inflight, nextUid>>
       ELSE IF users[username] # 0
       THEN /\ last' = Resp("register", 409, "", NoKey, NoSecret, FALSE, FALSE)
            /\ UNCHANGED <<inflight, nextUid>>
       ELSE /\ nextUid < MaxUids
            /\ nextKey + KeysReserved < MaxKeys
            /\ nextUid' = nextUid + 1
            /\ inflight' = Suspend(Req("register", username, password, nextUid + 1))
            /\ UNCHANGED last

\* POST /api/auth/register, the handler called on its own: no rate limiter before it
RegisterStart(username, password, masterKey) == RegisterHandler(username, password, masterKey) /\ UNCHANGED hits

\* the user object and key table after the register handler resumes
RegisterEffect(table, uid, apiKey) == JsSet(table, apiKey, uid)

\* POST /register from the await on
RegisterFinish(r) ==
    /\ r.op = "register"
    /\ LET apiKey == KsKey(nextKey + 1)
       IN /\ nextKey' = nextKey + 1
          /\ userObjs' = JsSet(userObjs, r.uid,
                [username |-> r.username, passwordHash |-> hashPassword(r.password),
                 apiKey |-> apiKey, lastAccess |-> now])
          /\ users' = [users EXCEPT ![r.username] = r.uid]
          /\ validApiKeys' = RegisterEffect(validApiKeys, r.uid, apiKey)
          /\ created' = [created EXCEPT ![r.username] = @ + 1]
          /\ last' = Resp("register", 201, "", apiKey, NoSecret, FALSE, FALSE)
    /\ inflight' = Resume(r)
    /\ EnvUnchanged
    /\ UNCHANGED <<nextUid, retired>>

\* POST /login up to `await verifyPassword(password, user.passwordHash)`
LoginHandler(username, password) ==
    /\ HasFreeSlot
    /\ AppUnchanged
    /\ UNCHANGED <<env, now>>
    /\ UserUnchanged
    /\ IF username = Missing \/ password = Missing
       THEN /\ last' = Resp("login", 400, "", NoKey, NoSecret, FALSE, FALSE)
            /\ UNCHANGED inflight
       ELSE IF users[username] = 0
       THEN /\ last' = Resp("login", 401, "", NoKey, NoSecret, FALSE, FALSE)
            /\ UNCHANGED inflight
       ELSE /\ inflight' = Suspend(Req("login", username, password, users[username]))
            /\ UNCHANGED last

\* POST /api/auth/login, the handler called on its own: no rate limiter before it
LoginStart(username, password) == LoginHandler(username, password) /\ UNCHANGED hits

\* a faulty login, against which C32 is tested: it also takes the key away
LoginEffectNoKey(user) == [user EXCEPT !.lastAccess = now, !.apiKey = NoKey]

\* what a successful login does to the user object: user.lastAccess = new Date()
LoginEffect(user) == [user EXCEPT !.lastAccess = now]

\* POST /login from the await on; `user` is the object fetched before the await
LoginFinish(r) ==
    /\ r.op = "login"
    /\ LET user == userObjs[r.uid]
       IN IF ~verifyPassword(r.password, user.passwordHash)
          THEN /\ last' = Resp("login", 401, "", NoKey, NoSecret, FALSE, FALSE)
               /\ UNCHANGED userObjs
          ELSE /\ userObjs' = [userObjs EXCEPT ![r.uid] = LoginEffect(user)]
               /\ last' = Resp("login", 200, "", user.apiKey, NoSecret, FALSE, FALSE)
    /\ inflight' = Resume(r)
    /\ EnvUnchanged
    /\ UNCHANGED <<users, validApiKeys, nextUid, nextKey, retired, created>>

\* POST /rotate-api-key up to `await verifyPassword(password, user.passwordHash)`
RotateHandler(username, password) ==
    /\ HasFreeSlot
    /\ AppUnchanged
    /\ UNCHANGED <<env, now>>
    /\ UserUnchanged
    /\ IF username = Missing \/ password = Missing
       THEN /\ last' = Resp("rotate", 400, "", NoKey, NoSecret, FALSE, FALSE)
            /\ UNCHANGED inflight
       ELSE IF users[username] = 0
       THEN /\ last' = Resp("rotate", 401, "", NoKey, NoSecret, FALSE, FALSE)
            /\ UNCHANGED inflight
       ELSE /\ nextKey + KeysReserved < MaxKeys
            /\ inflight' = Suspend(Req("rotate", username, password, users[username]))
            /\ UNCHANGED last

\* POST /api/auth/rotate-api-key, the handler called on its own: no rate limiter before it
RotateStart(username, password) == RotateHandler(username, password) /\ UNCHANGED hits

\* a faulty rotation, against which C1 is tested: the old key is left in the table
RotateStaleKey(table, oldKey, newKey, uid) == JsSet(table, newKey, uid)

\* the key table after rotate-api-key: the old key deleted, the new one added
RotateEffect(table, oldKey, newKey, uid) ==
    JsSet(JsDelete(table, oldKey), newKey, uid)

\* POST /rotate-api-key from the await on
RotateFinish(r) ==
    /\ r.op = "rotate"
    /\ LET user == userObjs[r.uid]
           newApiKey == KsKey(nextKey + 1)
       IN IF ~verifyPassword(r.password, user.passwordHash)
          THEN /\ last' = Resp("rotate", 401, "", NoKey, NoSecret, FALSE, FALSE)
               /\ UNCHANGED <<userObjs, validApiKeys, nextKey, retired>>
          ELSE /\ nextKey' = nextKey + 1
               /\ validApiKeys' = RotateEffect(validApiKeys, user.apiKey, newApiKey, r.uid)
               /\ userObjs' = [userObjs EXCEPT ![r.uid].apiKey = newApiKey]
               /\ retired' = retired \cup {user.apiKey}
               /\ last' = Resp("rotate", 200, "", newApiKey, NoSecret, FALSE, FALSE)
    /\ inflight' = Resume(r)
    /\ EnvUnchanged
    /\ UNCHANGED <<users, nextUid, created>>

-----------------------------------------------------------------------------
(* express-rate-limit instances: middleware/security.ts, index.ts *)

Limiters == {"global", "auth", "keyRetrieval"}

windowMs(L) ==
    CASE L = "global" -> 15 * 60 * 1000
      [] L = "auth" -> 15 * 60 * 1000
      [] L = "keyRetrieval" -> 60 * 1000

max(L) ==
    CASE L = "global" -> 100
      [] L = "auth" -> 5
      [] L = "keyRetrieval" -> 10

\* the store's entry of a key: a fresh window when there is none or it elapsed
\* (admitted is history: the calls of this window that were let through)
LimiterEntry(L, key) ==
    IF <<L, key>> \in DOMAIN hits /\ hits[<<L, key>>].resetTime > now
    THEN hits[<<L, key>>]
    ELSE [count |-> 0, resetTime |-> now + windowMs(L), admitted |-> 0]

\* a faulty limiter, against which C6 is tested: it compares the count before
\* the call is counted, and so lets max + 1 calls through
LimiterAdmitsLoose(L, key) == LimiterEntry(L, key).count <= max(L)

\* the middleware lets the request through iff totalHits <= max, the call included
LimiterAdmits(L, key) == LimiterEntry(L, key).count + 1 <= max(L)

\* store.increment(key): every call counts, also one that is then refused
LimiterIncrement(L, key) ==
    JsSet(hits, <<L, key>>,
          [LimiterEntry(L, key) EXCEPT
              !.count = @ + 1,
              !.admitted = IF LimiterAdmits(L, key) THEN @ + 1 ELSE @])

\* totalHits of a key in the current window
Count(L, key) == LimiterEntry(L, key).count

\* calls of a key let through in the current window
Admitted(L, key) == LimiterEntry(L, key).admitted

\* time passes; the store drops the windows that elapsed
Tick(d) ==
    /\ now' = now + d
    /\ hits' = [x \in {y \in DOMAIN hits : hits[y].resetTime > now + d} |-> hits[x]]
    /\ UNCHANGED <<users, userObjs, validApiKeys, nextUid, nextKey, inflight, env,
                   last, retired, created, file, appsCache, cacheTimestamp, nextApp,
                   granted, disk, written, script, crypt, bearer>>

\* one rate-limit middleware on its own: a call of client `key` is refused
\* with 429 or passed on (status 0)
LimiterHit(L, key) ==
    /\ hits' = LimiterIncrement(L, key)
    /\ last' = Resp(L, IF LimiterAdmits(L, key) THEN 0 ELSE 429, key, NoKey, NoSecret,
                    FALSE, FALSE)
    /\ UserUnchanged
    /\ AppUnchanged
    /\ UNCHANGED <<inflight, env, now>>

-----------------------------------------------------------------------------
(* /api/keys: validateApiKey, keyRetrievalLimiter, keysRouter *)

NoApiKeyData == [apiKey |-> NoKey, userId |-> Undefined]

\* middleware/auth.ts validateApiKey: the status it answers (0: next() is
\* called) and the req.apiKeyData it attaches
validateApiKey(apiKey) ==
    IF apiKey = NoKey
    THEN [status |-> 401, apiKeyData |-> NoApiKeyData]
    ELSE IF ~Truthy(JsGet(validApiKeys, apiKey))
    THEN [status |-> 401, apiKeyData |-> NoApiKeyData]
    ELSE [status |-> 0,
          apiKeyData |-> [apiKey |-> apiKey, userId |-> JsGet(validApiKeys, apiKey)]]

\* validateApiKey, statement by statement: what it did with the request
validateApiKeyTrail(apiKey) ==
    IF apiKey = NoKey THEN <<GateEvent("validateApiKey", "send")>>
    ELSE IF ~Truthy(JsGet(validApiKeys, apiKey))
    THEN <<GateEvent("validateApiKey", "send")>>
    ELSE <<GateEvent("validateApiKey", "next")>>

\* a response to a request that came to validateApiKey
KeysResp(status, ip, apiKey, secret, stale, known) ==
    [Resp("keys", status, ip, apiKey, secret, stale, known)
        EXCEPT !.trail = validateApiKeyTrail(apiKey)]

\* the secret the user routes encrypt under
EncryptionSecret(apiKeyData) ==
    IF env.encSecret THEN EncSecret ELSE apiKeyData.apiKey

\* routes/keys.ts GET /openai, /anthropic, /all: status and envelope secret
keysRouter(route, apiKeyData) ==
    LET wanted == IF route = "all" THEN Services ELSE {route}
    IN IF apiKeyData = NoApiKeyData
       THEN [status |-> 401, secret |-> NoSecret]
       ELSE IF wanted \cap env.configured = {}
       THEN [status |-> 404, secret |-> NoSecret]
       ELSE [status |-> 200, secret |-> EncryptionSecret(apiKeyData)]

\* app.use('/api/keys', validateApiKey, keyRetrievalLimiter, keysRouter)
KeysRequest(ip, apiKey, route) ==
    LET gate == validateApiKey(apiKey)
        stale == apiKey \in retired
        known == apiKey \in DOMAIN validApiKeys
    IN /\ IF gate.status # 0
          THEN /\ last' = KeysResp(gate.status, ip, apiKey, NoSecret, stale, known)
               /\ UNCHANGED hits
          ELSE /\ hits' = LimiterIncrement("keyRetrieval", ip)
               /\ IF ~LimiterAdmits("keyRetrieval", ip)
                  THEN last' = KeysResp(429, ip, apiKey, NoSecret, stale, known)
                  ELSE last' = KeysResp(keysRouter(route, gate.apiKeyData).status,
                                    ip, apiKey, keysRouter(route, gate.apiKeyData).secret,
                                    stale, known)
       /\ UserUnchanged
       /\ AppUnchanged
       /\ UNCHANGED <<inflight, env, now>>

-----------------------------------------------------------------------------
(* The user registry and the user key routes *)

MaxUserKeyReqs == 1     \* key requests of a client counted in SpecUser

\* everything starts empty; the service keys are configured, ENCRYPTION_SECRET is not
InitUser == Init /\ env = [encSecret |-> FALSE, configured |-> Services,
                           nodeEnv |-> "production"]

\* the request bodies tried: every username with the right and a wrong master
\* key, and one body for each missing field
RegisterInputs ==
    (Usernames \X {"pw1"} \X {MASTER_KEY, "wrong"})
        \cup {<<Missing, "pw1", MASTER_KEY>>, <<"alice", Missing, MASTER_KEY>>,
              <<"alice", "pw1", Missing>>}

LoginInputs ==
    (Usernames \X Passwords) \cup {<<Missing, "pw1">>, <<"alice", Missing>>}

NextUser ==
    \/ \E x \in RegisterInputs : RegisterStart(x[1], x[2], x[3])
    \/ \E r \in Pending : RegisterFinish(r)
    \/ \E x \in LoginInputs : LoginStart(x[1], x[2])
    \/ \E r \in Pending : LoginFinish(r)
    \/ \E x \in LoginInputs : RotateStart(x[1], x[2])
    \/ \E r \in Pending : RotateFinish(r)
    \/ \E k \in UserKeyHeaders :
          /\ Count("keyRetrieval", "10.0.0.5") < MaxUserKeyReqs
          /\ KeysRequest("10.0.0.5", k, "openai")

SpecUser == InitUser /\ [][NextUser]_vars

-----------------------------------------------------------------------------
(* The key-retrieval chain under load, for every configuration *)

MaxOver == 2        \* requests of a client beyond a limiter's max
MaxTicks == 2       \* steps of the clock

KeysTick == 30 * 1000

NextKeys ==
    \/ RegisterStart("alice", "pw1", MASTER_KEY)
    \/ \E r \in Pending : RegisterFinish(r)
    \/ \E k \in {NoKey, ProtoKey, BogusKey, KsKey(1)}, route \in KeyRoutes :
          /\ Count("keyRetrieval", "10.0.0.5") < max("keyRetrieval") + MaxOver
          /\ KeysRequest("10.0.0.5", k, route)
    \/ (now < MaxTicks * KeysTick /\ Tick(KeysTick))

SpecKeys == Init /\ [][NextKeys]_vars

-----------------------------------------------------------------------------
(* Each rate limiter on its own, one limiter exercised at a time *)

OnlyLimiter(L) == \A x \in DOMAIN hits : x[1] = L

\* one client goes beyond the limit, the other stays below it
HitCap(L, ip) == IF ip = "10.0.0.5" THEN max(L) + MaxOver ELSE MaxOver

NextLimiter ==
    \/ \E L \in Limiters, ip \in ClientIPs :
          /\ OnlyLimiter(L)
          /\ Count(L, ip) < HitCap(L, ip)
          /\ LimiterHit(L, ip)
    \/ \E L \in Limiters :
          /\ hits # EmptyTable
          /\ OnlyLimiter(L)
          /\ now < MaxTicks * windowMs(L)
          /\ Tick(windowMs(L) \div 2)

SpecLimiter == InitUser /\ [][NextLimiter]_vars

-----------------------------------------------------------------------------
(* The App registry: middleware/appAuth.ts, routes/apps.ts,
   scripts/manage-apps.ts. index.ts does not mount appsRouter; the router is
   modelled as it behaves once mounted (the README documents /api/app). The
   script is another process: it reads and writes apps.json directly, and the
   server sees its writes only when its own cache is older than CACHE_TTL. *)

MaxApps == 1        \* apps registered while the app routes are exercised
MaxScriptApps == 2  \* apps registered while the script is exercised
MaxAppTicks == 1    \* steps of the clock of the App registry
MaxAccess == 2      \* requests of one app that pass the App gate

CACHE_TTL == 60000

NoDate == -1        \* lastAccess / expiresAt absent

DayMs == 24 * 60 * 60 * 1000

AppRoutes == {"openai", "anthropic", "all", "status"}

(* Origins and domains are character sequences, so that String.includes is
   the substring test it is. *)
MyDomain == <<"m", "y", ".", "c", "o">>
NoOrigin == <<>>                                               \* no Origin, no Referer
GoodOrigin == <<"/", "/">> \o MyDomain                         \* //my.co
EvilOrigin == <<"/", "/", "e", "v">>                           \* //ev
TrickyOrigin == <<"/", "/">> \o MyDomain \o <<".", "e", "v">>  \* //my.co.ev
Origins == {NoOrigin, GoodOrigin, EvilOrigin, TrickyOrigin}

\* s.includes(sub)
Includes(s, sub) ==
    \E i \in 1..(Len(s) - Len(sub) + 1) : SubSeq(s, i, i + Len(sub) - 1) = sub

DefaultRateLimit == [windowMs |-> 60000, maxRequests |-> 30]

\* an App record (types/app.ts) as registerApp builds it; permissions is the
\* set of services whose flag is true
AppRecord(id, name, apiKey, permissions, allowedIPs, allowedDomains, rateLimit, expiresAt) ==
    [id |-> id, name |-> name, apiKey |-> apiKey, permissions |-> permissions,
     allowedIPs |-> allowedIPs, allowedDomains |-> allowedDomains,
     rateLimit |-> rateLimit, accessCount |-> 0, lastAccess |-> NoDate,
     environment |-> "production", expiresAt |-> expiresAt]

\* config.apps[k] is undefined
NoApp == AppRecord(Undefined, "", NoKey, {}, {}, {}, DefaultRateLimit, NoDate)

\* config.apps["constructor"]: the function Object, none of whose App fields exist
CtorApp == AppRecord(ObjectCtor, "", NoKey, {}, {}, {}, DefaultRateLimit, NoDate)

\* config.apps[k], with the prototype chain of a parsed object
AppGet(config, k) ==
    IF k \in DOMAIN config THEN config[k]
    ELSE IF k = ProtoKey THEN CtorApp
    ELSE NoApp

\* command lines of `manage-apps register`: --name, --openai/--anthropic, --ips,
\* --domains, --rate-limit "<requests>/<minutes>", --expires <days>
CLIOptions(name, permissions, ips, domains, rateLimit, expires) ==
    [name |-> name, permissions |-> permissions, ips |-> ips, domains |-> domains,
     rateLimit |-> rateLimit, expires |-> expires]

NoOption == <<>>

RegisterCommands ==
    { CLIOptions("Bot", {"openai"}, {}, {}, <<1, 1>>, NoOption),
      CLIOptions("Bot", Services, {"10.0.0.5"}, {}, NoOption, NoOption),
      CLIOptions("Web", {"anthropic"}, {}, {MyDomain}, NoOption, <<0>>),
      CLIOptions("Web", {}, {}, {}, NoOption, NoOption) }

AppNames == {"Bot", "Web"}

AppKeyHeaders == {NoKey, ProtoKey, AppKey(0)} \cup {AppKey(n) : n \in 1..nextApp}

\* a response of the app routes or of the script
AppResp(op, status, error, ip, key, route, secret, envelopes, known) ==
    [op |-> op, status |-> status, ip |-> ip, key |-> key, secret |-> secret,
     stale |-> FALSE, known |-> known, error |-> error, route |-> route,
     envelopes |-> envelopes, origin |-> <<>>, trail |-> <<>>]

\* registerNewApp: the options passed to registerApp
RateLimitOption(o) ==
    IF o.rateLimit = NoOption THEN DefaultRateLimit
    ELSE [windowMs |-> o.rateLimit[2] * 60 * 1000, maxRequests |-> o.rateLimit[1]]

ExpiresOption(o) ==
    IF o.expires = NoOption THEN NoDate ELSE now + o.expires[1] * DayMs

\* readFileSync and JSON.parse of apps.json, with the fallback of loadApps
ReadFile == IF disk = "readfail" THEN EmptyTable ELSE file

\* `manage-apps register`: registerNewApp, then registerApp in the script's
\* process (its cache is empty, so loadApps reads the file). saveApps swallows
\* a failed write, and registerApp returns the app all the same.
RegisterApp(o) ==
    /\ IF o.name = "" \/ o.permissions = {}
       THEN /\ last' = AppResp("registerApp", 1, "", "", NoKey, "", NoSecret, {}, FALSE)
            /\ UNCHANGED <<file, nextApp, disk, written>>
       ELSE /\ nextApp' = nextApp + 1
            /\ IF disk = "writefail"
               THEN UNCHANGED <<file, disk, written>>
               ELSE /\ file' = JsSet(ReadFile, AppKey(nextApp + 1),
                                     AppRecord(nextApp + 1, o.name, AppKey(nextApp + 1),
                                               o.permissions, o.ips, o.domains,
                                               RateLimitOption(o), ExpiresOption(o)))
                    /\ disk' = "ok"
                    /\ written' = JsSet(written, AppKey(nextApp + 1),
                                        [op |-> "register", at |-> now])
            /\ last' = AppResp("registerApp", 0, "", "", AppKey(nextApp + 1), "",
                               NoSecret, {}, FALSE)
    /\ UserUnchanged
    /\ UNCHANGED <<inflight, env, hits, now, appsCache, cacheTimestamp, granted, script,
                   crypt, bearer>>

\* Object.entries(config.apps) lists the keys in the order they were added
FirstNamed(config, name) ==
    CHOOSE k \in DOMAIN config :
        /\ config[k].name = name
        /\ \A j \in DOMAIN config : config[j].name = name => k.n <= j.n

\* the loop of revokeApp: delete the first record of that name, then break
RevokeLoop(config, name) == JsDelete(config, FirstNamed(config, name))

\* `manage-apps revoke <name>`: exit code 1 when no record has the name; a read
\* or write that throws is caught and logged (status 2 here), nothing written
RevokeApp(name) ==
    /\ IF disk = "readfail"
       THEN /\ last' = AppResp("revoke", 2, name, "", NoKey, "", NoSecret, {}, FALSE)
            /\ UNCHANGED <<file, written>>
       ELSE IF \A k \in DOMAIN file : file[k].name # name
       THEN /\ last' = AppResp("revoke", 1, name, "", NoKey, "", NoSecret, {}, FALSE)
            /\ UNCHANGED <<file, written>>
       ELSE IF disk = "writefail"
       THEN /\ last' = AppResp("revoke", 2, name, "", NoKey, "", NoSecret, {}, FALSE)
            /\ UNCHANGED <<file, written>>
       ELSE /\ file' = RevokeLoop(file, name)
            /\ written' = JsSet(written, FirstNamed(file, name),
                                [op |-> "revoke", at |-> now])
            /\ last' = AppResp("revoke", 0, name, "", NoKey, "", NoSecret, {}, FALSE)
    /\ UserUnchanged
    /\ UNCHANGED <<inflight, env, hits, now, appsCache, cacheTimestamp, nextApp, granted,
                   disk, script, crypt, bearer>>

(* The script and the server are two processes that share apps.json without
   a lock: between the script's readFileSync and its writeFileSync the server
   may write the file. RegisterApp and RevokeApp above are the runs in which
   it does not; the three actions below are the two halves of a run. *)

\* `manage-apps register` up to the write: loadApps, and the record is built
RegisterRead(o) ==
    /\ script = ScriptIdle
    /\ UNCHANGED <<crypt, bearer>>
    /\ o.name # "" /\ o.permissions # {}
    /\ nextApp' = nextApp + 1
    /\ script' = [op |-> "register", name |-> o.name, key |-> AppKey(nextApp + 1),
                  config |-> JsSet(ReadFile, AppKey(nextApp + 1),
                                   AppRecord(nextApp + 1, o.name, AppKey(nextApp + 1),
                                             o.permissions, o.ips, o.domains,
                                             RateLimitOption(o), ExpiresOption(o)))]
    /\ UserUnchanged
    /\ UNCHANGED <<inflight, env, hits, now, last, file, appsCache, cacheTimestamp,
                   granted, disk, written>>

\* `manage-apps revoke <name>` up to the write: the file is read and the
\* first record of that name deleted
RevokeRead(name) ==
    /\ script = ScriptIdle
    /\ UNCHANGED <<crypt, bearer>>
    /\ disk # "readfail"
    /\ \E k \in DOMAIN file : file[k].name = name
    /\ script' = [op |-> "revoke", name |-> name, key |-> FirstNamed(file, name),
                  config |-> RevokeLoop(file, name)]
    /\ UserUnchanged
    /\ UNCHANGED <<inflight, env, hits, now, last, file, appsCache, cacheTimestamp,
                   nextApp, granted, disk, written>>

\* the writeFileSync of the script: the configuration it read, as it changed it
ScriptWrite ==
    /\ script # ScriptIdle
    /\ script' = ScriptIdle
    /\ UNCHANGED <<crypt, bearer>>
    /\ IF disk = "writefail"
       THEN /\ last' = AppResp(IF script.op = "register" THEN "registerApp" ELSE "revoke",
                               IF script.op = "register" THEN 0 ELSE 2,
                               script.name, "", script.key, "", NoSecret, {}, FALSE)
            /\ UNCHANGED <<file, disk, written>>
       ELSE /\ last' = AppResp(IF script.op = "register" THEN "registerApp" ELSE "revoke",
                               0, script.name, "", script.key, "", NoSecret, {}, FALSE)
            /\ file' = script.config
            /\ disk' = "ok"
            /\ written' = JsSet(written, script.key, [op |-> script.op, at |-> now])
    /\ UserUnchanged
    /\ UNCHANGED <<inflight, env, hits, now, appsCache, cacheTimestamp, nextApp, granted>>

\* a faulty cache, against which C31 is tested: it is never taken as fresh
CacheFreshNever == FALSE

\* loadApps of the server: the cache while it is younger than CACHE_TTL
CacheFresh == appsCache.loaded /\ now - cacheTimestamp < CACHE_TTL

\* loadApps replaces the cache: it is stale (or empty) and the file can be read
Reloads == ~CacheFresh /\ disk # "readfail"

\* loadApps: the cache, or the file, or { apps: {} } when reading it throws
LoadApps == IF CacheFresh THEN appsCache.apps ELSE ReadFile

\* a faulty gate, against which C3 is tested: the IP whitelist is not consulted
IpAllowedAny(app, ip) == TRUE

\* validateAppKey, the IP whitelist check
IpAllowed(app, ip) == app.allowedIPs = {} \/ ip \in app.allowedIPs

\* a faulty domain check, against which C28 is tested: every origin passes
DomainAllowedAny(app, origin) == TRUE

\* validateAppKey, the domain check
DomainAllowed(app, origin) ==
    \/ app.allowedDomains = {}
    \/ origin = NoOrigin
    \/ \E domain \in app.allowedDomains : Includes(origin, domain)

\* a faulty expiry check, against which C16 is tested: no App ever expires
ExpiredNever(app) == FALSE

\* validateAppKey, the expiry check
Expired(app) == app.expiresAt # NoDate /\ app.expiresAt < now

\* validateAppKey: the status it answers (0: next() is called) and its message
validateAppKey(config, ip, apiKey, origin) ==
    LET app == AppGet(config, apiKey)
    IN IF apiKey = NoKey
       THEN [status |-> 401, error |-> "App API key required"]
       ELSE IF app.id = Undefined
       THEN [status |-> 401, error |-> "Invalid app API key"]
       ELSE IF Expired(app)
       THEN [status |-> 401, error |-> "App API key expired"]
       ELSE IF ~IpAllowed(app, ip)
       THEN [status |-> 403, error |-> "Access denied from this IP"]
       ELSE IF ~DomainAllowed(app, origin)
       THEN [status |-> 403, error |-> "Access denied from this domain"]
       ELSE [status |-> 0, error |-> ""]

\* validateAppKey, statement by statement: what it did with the request; the
\* errors of loadApps and saveApps are caught inside them
validateAppKeyTrail(config, ip, apiKey, origin) ==
    LET app == AppGet(config, apiKey)
    IN IF apiKey = NoKey THEN <<GateEvent("validateAppKey", "send")>>
       ELSE IF app.id = Undefined THEN <<GateEvent("validateAppKey", "send")>>
       ELSE IF Expired(app) THEN <<GateEvent("validateAppKey", "send")>>
       ELSE IF ~IpAllowed(app, ip) THEN <<GateEvent("validateAppKey", "send")>>
       ELSE IF ~DomainAllowed(app, origin) THEN <<GateEvent("validateAppKey", "send")>>
       ELSE <<GateEvent("validateAppKey", "next")>>

\* checkAppPermission(service), statement by statement: app.permissions is
\* undefined on the function Object, and reading a flag of undefined throws
checkAppPermissionTrail(service, app) ==
    IF app.id = Undefined THEN <<GateEvent("checkAppPermission", "send")>>
    ELSE IF app.id = ObjectCtor THEN <<GateEvent("checkAppPermission", "throw")>>
    ELSE IF service \notin app.permissions
    THEN <<GateEvent("checkAppPermission", "send")>>
    ELSE <<GateEvent("checkAppPermission", "next")>>

\* the gates an App request runs through: validateAppKey, and on the routes
\* of one service checkAppPermission when validateAppKey passed it on
AppTrail(config, ip, apiKey, origin, route) ==
    LET first == validateAppKeyTrail(config, ip, apiKey, origin)
    IN IF first[Len(first)].did = "next" /\ route \in Services
       THEN first \o checkAppPermissionTrail(route, AppGet(config, apiKey))
       ELSE first

\* a faulty permission check, against which C2 is tested: the flag is not read
checkAppPermissionAny(service, app) ==
    IF app.id = Undefined THEN 401 ELSE 0

\* checkAppPermission(service): 0 when next() is called
checkAppPermission(service, app) ==
    IF app.id = Undefined THEN 401
    ELSE IF service \notin app.permissions THEN 403
    ELSE 0

\* a faulty collection, against which C27 is tested: the flags are not read
allKeysConfigured(app) == env.configured

\* GET /keys/all: the services of the keys object, one envelope for each
\* service that is permitted and whose key is in the environment
allKeys(app) == app.permissions \cap env.configured

\* routes/apps.ts: the answer of a route to a request that passed the gate
\* (the function Object has no permissions: reading a flag of it throws)
appsRouter(route, app) ==
    LET none == [status |-> 200, error |-> "", envelopes |-> {}, secret |-> NoSecret]
    IN IF route = "status" THEN none
       ELSE IF app.id = ObjectCtor
       THEN [none EXCEPT !.status = 500, !.error = "Failed to retrieve key"]
       ELSE IF route = "all"
       THEN IF allKeys(app) = {}
            THEN [none EXCEPT !.status = 404, !.error = "No accessible keys for this app"]
            ELSE [none EXCEPT !.envelopes = allKeys(app), !.secret = app.apiKey]
       ELSE IF checkAppPermission(route, app) # 0
       THEN [none EXCEPT !.status = checkAppPermission(route, app),
                         !.error = "App does not have permission"]
       ELSE IF route \notin env.configured
       THEN [none EXCEPT !.status = 404, !.error = "key not configured"]
       ELSE [none EXCEPT !.envelopes = {route}, !.secret = app.apiKey]

\* history: the window a per-app limiter would keep for the app
GrantedEntry(app) ==
    IF app.apiKey \in DOMAIN granted /\ granted[app.apiKey].resetTime > now
    THEN granted[app.apiKey]
    ELSE [count |-> 0, resetTime |-> now + app.rateLimit.windowMs,
          max |-> app.rateLimit.maxRequests]

\* history: the script has revoked the App of this key
Revoked(apiKey) == apiKey \in DOMAIN written /\ written[apiKey].op = "revoke"

\* a request to the app routes: validateAppKey (with its access statistics and
\* saveApps), then the route. The statistics are written into the object
\* loadApps returned, which is the cache's own object unless the read threw;
\* saveApps swallows a failed write and next() is called all the same.
AppRequest(ip, apiKey, origin, route) ==
    LET config == LoadApps
        gate == validateAppKey(config, ip, apiKey, origin)
        app == AppGet(config, apiKey)
        known == apiKey \in DOMAIN config
        counted == [app EXCEPT !.lastAccess = now, !.accessCount = @ + 1]
        saved == IF known THEN JsSet(config, apiKey, counted) ELSE config
        answer == appsRouter(route, counted)
    IN /\ IF apiKey = NoKey
          THEN /\ last' = [AppResp("app", gate.status, gate.error, ip, apiKey, route,
                                   NoSecret, {}, known)
                              EXCEPT !.stale = Revoked(apiKey), !.origin = origin,
                                     !.trail = AppTrail(config, ip, apiKey, origin, route)]
               /\ UNCHANGED <<file, appsCache, cacheTimestamp, granted, disk>>
          ELSE IF gate.status # 0
          THEN /\ last' = [AppResp("app", gate.status, gate.error, ip, apiKey, route,
                                   NoSecret, {}, known)
                              EXCEPT !.stale = Revoked(apiKey), !.origin = origin,
                                     !.trail = AppTrail(config, ip, apiKey, origin, route)]
               /\ appsCache' = IF Reloads THEN [loaded |-> TRUE, apps |-> file]
                                ELSE appsCache
               /\ cacheTimestamp' = IF Reloads THEN now ELSE cacheTimestamp
               /\ UNCHANGED <<file, granted, disk>>
          ELSE /\ last' = [AppResp("app", answer.status, answer.error, ip, apiKey, route,
                                   answer.secret, answer.envelopes, known)
                              EXCEPT !.stale = Revoked(apiKey), !.origin = origin,
                                     !.trail = AppTrail(config, ip, apiKey, origin, route)]
               /\ IF disk = "writefail"
                  THEN /\ appsCache' = [loaded |-> TRUE, apps |-> saved]
                       /\ cacheTimestamp' = IF Reloads THEN now ELSE cacheTimestamp
                       /\ UNCHANGED <<file, disk>>
                  ELSE /\ file' = saved
                       /\ appsCache' = [loaded |-> TRUE, apps |-> saved]
                       /\ cacheTimestamp' = now
                       /\ disk' = "ok"
               /\ granted' = IF known
                             THEN JsSet(granted, apiKey,
                                        [GrantedEntry(app) EXCEPT !.count = @ + 1])
                             ELSE granted
       /\ UserUnchanged
       /\ UNCHANGED <<inflight, env, hits, now, nextApp, written, script, crypt, bearer>>

\* apps.json becomes unreadable (missing, truncated, not JSON) or unwritable,
\* or is repaired with the content it had
DiskFault(d) ==
    /\ disk # d
    /\ disk' = d
    /\ UserUnchanged
    /\ UNCHANGED <<inflight, env, hits, now, last, file, appsCache, cacheTimestamp,
                   nextApp, granted, written, script, crypt, bearer>>

AppTick == CACHE_TTL

\* an app request may be made while the app it names has passed the gate
\* fewer than MaxAccess times
AppBudget(apiKey) == AppGet(LoadApps, apiKey).accessCount < MaxAccess

\* the requests tried: every key on every route from the first client without
\* an origin, every issued key from the second client, and every issued key
\* from the first client with each origin
AppRequests ==
    ({"10.0.0.5"} \X AppKeyHeaders \X {NoOrigin} \X AppRoutes)
        \cup ({"10.0.0.9"} \X (AppKeyHeaders \ {NoKey, ProtoKey}) \X {NoOrigin} \X {"openai"})
        \cup ({"10.0.0.5"} \X (AppKeyHeaders \ {NoKey, ProtoKey}) \X (Origins \ {NoOrigin})
                  \X {"anthropic"})

NextApp ==
    \/ \E o \in RegisterCommands : nextApp < MaxApps /\ RegisterApp(o)
    \/ \E x \in AppRequests :
          /\ AppBudget(x[2])
          /\ AppRequest(x[1], x[2], x[3], x[4])
    \/ (now < MaxAppTicks * AppTick /\ Tick(AppTick))

\* an empty registry in a production deployment; the App routes read neither
\* ENCRYPTION_SECRET nor NODE_ENV
InitApp == Init /\ ~env.encSecret /\ env.nodeEnv = "production"

SpecApp == InitApp /\ [][NextApp]_vars

-----------------------------------------------------------------------------
(* The management script, with one client of the app routes *)

NextScript ==
    \/ \E o \in RegisterCommands : nextApp < MaxScriptApps /\ RegisterApp(o)
    \/ \E name \in AppNames : RevokeApp(name)
    \/ \E k \in AppKeyHeaders \ {NoKey, ProtoKey} :
          /\ AppBudget(k)
          /\ AppRequest("10.0.0.5", k, NoOrigin, "status")
    \/ (now < MaxAppTicks * AppTick /\ Tick(AppTick))

SpecScript == InitUser /\ [][NextScript]_vars

-----------------------------------------------------------------------------
(* The registry while apps.json fails to be read or written *)

DiskStates == {"ok", "readfail", "writefail"}

NextDisk ==
    \/ \E o \in RegisterCommands : nextApp < MaxApps /\ RegisterApp(o)
    \/ \E name \in AppNames : RevokeApp(name)
    \/ \E k \in AppKeyHeaders \ {NoKey} :
          /\ AppBudget(k)
          /\ AppRequest("10.0.0.5", k, NoOrigin, "status")
    \/ \E d \in DiskStates : DiskFault(d)
    \/ (now < MaxAppTicks * AppTick /\ Tick(AppTick))

SpecDisk == InitUser /\ [][NextDisk]_vars

-----------------------------------------------------------------------------
(* Registrations of the script over a store that can fail *)

NextStore ==
    \/ \E o \in RegisterCommands : nextApp < MaxScriptApps /\ RegisterApp(o)
    \/ \E d \in DiskStates : DiskFault(d)
    \/ (now < MaxAppTicks * AppTick /\ Tick(AppTick))

SpecStore == InitUser /\ [][NextStore]_vars

-----------------------------------------------------------------------------
(* The script's read and write interleaved with the server's requests *)

NextRace ==
    \/ \E o \in RegisterCommands : nextApp < MaxScriptApps /\ RegisterRead(o)
    \/ \E name \in AppNames : RevokeRead(name)
    \/ ScriptWrite
    \/ \E k \in AppKeyHeaders \ {NoKey, ProtoKey} :
          /\ AppBudget(k)
          /\ AppRequest("10.0.0.5", k, NoOrigin, "status")

SpecRace == InitUser /\ [][NextRace]_vars

-----------------------------------------------------------------------------
(* The whole middleware chain of index.ts: helmet, cors, express.json, the
   global limiter, securityHeaders, then /health, /api/auth (authLimiter and
   the router) and /api/keys (validateApiKey, keyRetrievalLimiter and the
   router), and errorHandler last. helmet and securityHeaders set response
   headers only. cors() answers every OPTIONS request itself with 204 and
   calls nothing after it; express.json() passes a body that is no JSON as an
   error to errorHandler, which answers 500, so that neither request reaches
   the global limiter. *)

RequestKinds == {"plain", "preflight", "badjson"}
AuthRoutes == {"register", "login", "rotate"}
ChainRoutes == {"health", "keys", "other"} \cup AuthRoutes

\* the store of two limiters after one request was counted by both
LimiterIncrementBoth(L1, L2, key) ==
    JsSet(LimiterIncrement(L1, key), <<L2, key>>, LimiterIncrement(L2, key)[<<L2, key>>])

\* a response of the chain itself; `error` names the middleware that answered
ChainResp(route, status, ip, by) ==
    [Resp(route, status, ip, NoKey, NoSecret, FALSE, FALSE) EXCEPT !.error = by]

\* nothing but the response: no limiter counted, no handler ran
OnlyAnswers ==
    /\ UserUnchanged
    /\ AppUnchanged
    /\ UNCHANGED <<inflight, env, now>>

\* one request through the chain. body is <<username, password, masterKey>>
HttpRequest(ip, kind, route, body, apiKey) ==
    IF kind = "preflight"
    THEN /\ last' = ChainResp(route, 204, ip, "cors")
         /\ OnlyAnswers /\ UNCHANGED hits
    ELSE IF kind = "badjson"
    THEN /\ last' = ChainResp(route, 500, ip, "errorHandler")
         /\ OnlyAnswers /\ UNCHANGED hits
    ELSE IF ~LimiterAdmits("global", ip)
    THEN /\ last' = ChainResp(route, 429, ip, "global")
         /\ hits' = LimiterIncrement("global", ip)
         /\ OnlyAnswers
    ELSE IF route = "health"
    THEN /\ last' = ChainResp(route, 200, ip, "")
         /\ hits' = LimiterIncrement("global", ip)
         /\ OnlyAnswers
    ELSE IF route \in AuthRoutes
    THEN IF ~LimiterAdmits("auth", ip)
         THEN /\ last' = ChainResp(route, 429, ip, "auth")
              /\ hits' = LimiterIncrementBoth("global", "auth", ip)
              /\ OnlyAnswers
         ELSE /\ hits' = LimiterIncrementBoth("global", "auth", ip)
              /\ CASE route = "register" -> RegisterHandler(body[1], body[2], body[3])
                   [] route = "login" -> LoginHandler(body[1], body[2])
                   [] route = "rotate" -> RotateHandler(body[1], body[2])
    ELSE IF route = "keys"
    THEN LET gate == validateApiKey(apiKey)
             stale == apiKey \in retired
             known == apiKey \in DOMAIN validApiKeys
             answer == keysRouter("openai", gate.apiKeyData)
         IN /\ IF gate.status # 0
               THEN /\ last' = KeysResp(gate.status, ip, apiKey, NoSecret, stale, known)
                    /\ hits' = LimiterIncrement("global", ip)
               ELSE /\ hits' = LimiterIncrementBoth("global", "keyRetrieval", ip)
                    /\ IF ~LimiterAdmits("keyRetrieval", ip)
                       THEN last' = KeysResp(429, ip, apiKey, NoSecret, stale, known)
                       ELSE last' = KeysResp(answer.status, ip, apiKey,
                                         answer.secret, stale, known)
            /\ OnlyAnswers
    ELSE /\ last' = ChainResp(route, 404, ip, "")
         /\ hits' = LimiterIncrement("global", ip)
         /\ OnlyAnswers

\* the requests tried: the body of one user, and a client with and without an
\* api key
ChainBodies == {<<"alice", "pw1", MASTER_KEY>>}
ChainKeys == {NoKey, KsKey(1)}

ChainRequests == ClientIPs \X RequestKinds \X ChainRoutes \X ChainBodies \X ChainKeys

\* the global limiter at its limit: the first client asks for /health until
\* the limiter has counted max requests, and sends every request as its
\* first and from the max-th on; the other client sends a few requests then
GlobalBudget(ip, kind, route) ==
    /\ Count("global", ip) < max("global") + MaxOver
    /\ ip # "10.0.0.5" =>
          /\ Count("global", "10.0.0.5") >= max("global")
          /\ Count("global", ip) < MaxOver
          /\ kind = "plain" /\ route = "health"
    /\ \/ kind = "plain" /\ route = "health"
       \/ Count("global", ip) < 1
       \/ Count("global", ip) >= max("global")

NextChain ==
    \/ \E x \in ChainRequests :
          /\ GlobalBudget(x[1], x[2], x[3])
          /\ HttpRequest(x[1], x[2], x[3], x[4], x[5])
    \/ \E r \in Pending : RegisterFinish(r)
    \/ \E r \in Pending : LoginFinish(r)
    \/ \E r \in Pending : RotateFinish(r)
    \/ (/\ now < windowMs("global")
        /\ Count("global", "10.0.0.5") >= max("global")
        /\ Tick(windowMs("global")))

SpecChain == InitUser /\ [][NextChain]_vars

\* the auth limiter at its limit: the clients send requests to the auth routes
\* only, the first max + MaxOver of them in a window, the other MaxOver;
\* preflights and unparsable bodies come first and from the max-th on
AuthBudget(ip, kind, route) ==
    /\ route \in AuthRoutes
    /\ Count("auth", ip) < (IF ip = "10.0.0.5" THEN max("auth") + MaxOver ELSE MaxOver)
    /\ ip # "10.0.0.5" => (Count("auth", "10.0.0.5") >= max("auth") /\ kind = "plain")
    /\ kind # "plain" => (Count("auth", ip) < 1 \/ Count("auth", ip) >= max("auth"))

NextAuth ==
    \/ \E x \in ChainRequests :
          /\ AuthBudget(x[1], x[2], x[3])
          /\ HttpRequest(x[1], x[2], x[3], x[4], x[5])
    \/ \E r \in Pending : RegisterFinish(r)
    \/ \E r \in Pending : LoginFinish(r)
    \/ \E r \in Pending : RotateFinish(r)
    \/ (/\ now < windowMs("auth")
        /\ Count("auth", "10.0.0.5") >= max("auth")
        /\ Tick(windowMs("auth")))

SpecAuth == InitUser /\ [][NextAuth]_vars

-----------------------------------------------------------------------------
(* The bearer-token gate (middleware/auth.ts)

   A token is modelled by what jwt.sign puts into it and jwt.verify reads from
   it: the payload, iat and exp in seconds, the secret it was signed with and
   whether the signature still covers the content. HMAC is taken as ideal: a
   signature verifies only under the secret it was made with and only over the
   content it was made for. issuedAt is history: the clock, in milliseconds,
   when the token was signed. *)

JWT_SECRET == "JWT_SECRET"

\* expiresIn: '24h', in seconds
TokenLifetime == 24 * 60 * 60

\* jwt.sign(payload, secret, { expiresIn: '24h' }) when the clock shows t
Sign(payload, secret, t) ==
    [form |-> "jwt", userId |-> payload.userId, username |-> payload.username,
     iat |-> t \div 1000, exp |-> (t \div 1000) + TokenLifetime,
     key |-> secret, intact |-> TRUE, issuedAt |-> t]

generateToken(payload, t) == Sign(payload, JWT_SECRET, t)

NoUser == [userId |-> 0, username |-> ""]

\* a faulty verification, against which C24 is tested: exp is not looked at
verifyTokenForever(token) ==
    IF token.form = "jwt" /\ token.key = JWT_SECRET /\ token.intact
    THEN [ok |-> TRUE, payload |-> [userId |-> token.userId, username |-> token.username]]
    ELSE [ok |-> FALSE, payload |-> NoUser]

\* verifyToken: jwt.verify(token, JWT_SECRET) returns the payload, or throws
\* when the string is no token, the signature does not verify or exp is reached
verifyToken(token) ==
    IF /\ token.form = "jwt"
       /\ token.key = JWT_SECRET
       /\ token.intact
       /\ now \div 1000 < token.exp
    THEN [ok |-> TRUE, payload |-> [userId |-> token.userId, username |-> token.username]]
    ELSE [ok |-> FALSE, payload |-> NoUser]

\* validateJWT: the status it answers (0: req.user is set and next() is called)
validateJWT(header) ==
    IF header.scheme # "Bearer "
    THEN [status |-> 401, error |-> "Missing or invalid authorization header",
          user |-> NoUser]
    ELSE IF ~verifyToken(header.token).ok
    THEN [status |-> 401, error |-> "Invalid or expired token", user |-> NoUser]
    ELSE [status |-> 0, error |-> "", user |-> verifyToken(header.token).payload]

\* validateJWT, statement by statement: what it did with the request; every
\* exception of verifyToken is caught
validateJWTTrail(header) ==
    IF header.scheme # "Bearer " THEN <<GateEvent("validateJWT", "send")>>
    ELSE IF verifyToken(header.token).ok THEN <<GateEvent("validateJWT", "next")>>
    ELSE <<GateEvent("validateJWT", "send")>>

\* the clock values of the runs: around one second, half a day, and a day
JwtClock == <<0, 999, 43200000, 86399001, 86400000, 86400999>>

TokenPayloads == {[userId |-> 1, username |-> "alice"], [userId |-> 2, username |-> "bob"]}

\* a string that is no token
NotAToken == [form |-> "garbage", userId |-> 0, username |-> "", iat |-> 0, exp |-> 0,
              key |-> "", intact |-> FALSE, issuedAt |-> 0]

\* the tokens a client can hold now: those the login route has signed so far,
\* tokens signed with another secret, tokens of the server whose payload was
\* rewritten afterwards, and strings that are no tokens
TokensNow ==
    LET times == {JwtClock[i] : i \in {j \in 1..Len(JwtClock) : JwtClock[j] <= now}}
        issued == {generateToken(p, t) : p \in TokenPayloads, t \in times}
    IN issued
        \cup {Sign(p, "guess", t) : p \in TokenPayloads, t \in times}
        \cup {[tok EXCEPT !.userId = 3 - @, !.intact = FALSE] : tok \in issued}
        \cup {NotAToken}

\* the Authorization headers tried; scheme "" with no token: no header at all
HeadersNow ==
    {[scheme |-> "", token |-> NotAToken]}
        \cup [scheme : {"Bearer ", "bearer ", "Basic "}, token : TokensNow]

\* a request arrives at validateJWT
ValidateJWT(header) ==
    /\ bearer' = [header |-> header, status |-> validateJWT(header).status,
                  error |-> validateJWT(header).error,
                  user |-> validateJWT(header).user, at |-> now,
                  trail |-> validateJWTTrail(header)]
    /\ UserUnchanged
    /\ UNCHANGED <<inflight, env, hits, now, last, file, appsCache, cacheTimestamp,
                   nextApp, granted, disk, written, script, crypt>>

NextJwt ==
    \/ \E header \in HeadersNow : ValidateJWT(header)
    \/ \E i \in 1..(Len(JwtClock) - 1) :
          /\ now = JwtClock[i]
          /\ Tick(JwtClock[i + 1] - now)

SpecJwt == InitUser /\ [][NextJwt]_vars

-----------------------------------------------------------------------------
(* Envelope encryption (utils/encryption.ts)

   encryptKey and decryptKey are pure but for the random salt and iv. They are
   modelled over symbolic byte strings: PBKDF2 and AES-256-GCM are taken as
   ideal (two derived keys, two ciphertexts or two tags are equal only if they
   were computed from equal inputs), while every conversion around them is
   computed as Node computes it: a JavaScript string is a sequence of UTF-16
   code units and is written as UTF-8, HMAC pads its key to the block length
   with zero bytes, a buffer is printed as hexadecimal digits and read back
   from them, and the envelope is a JSON text. *)

MaxPlain == 2       \* code units of a plaintext
MaxSecret == 2      \* code units of a secret
MaxNonce == 1       \* distinct outcomes of crypto.randomBytes

SaltBytes == 32
IvBytes == 16
TagBytes == 16      \* length of the tag cipher.getAuthTag() returns
\* the tag lengths decipher.setAuthTag accepts for GCM
TagLengths == {4, 8, 12, 13, 14, 15, 16}

\* code units: an ASCII character, a high and a low surrogate; in secrets an
\* ASCII character and U+0000
PlainUnits == {"k", "Hi", "Lo"}
SecretUnits == {"s", "NUL"}
Strings(units, n) == UNION {[1..m -> units] : m \in 0..n}
Plaintexts == Strings(PlainUnits, MaxPlain)
Secrets == Strings(SecretUnits, MaxSecret)

\* a string without a lone surrogate
WellFormed(str) ==
    \A i \in 1..Len(str) :
        /\ str[i] = "Hi" => (i < Len(str) /\ str[i + 1] = "Lo")
        /\ str[i] = "Lo" => (i > 1 /\ str[i - 1] = "Hi")

IsByte(t) == t # "skip"

\* a faulty encoder, against which C18 is tested: every surrogate is written
\* as U+FFFD, paired or not
utf8WriteLossy(str) ==
    [i \in 1..Len(str) |-> IF str[i] \in {"Hi", "Lo"} THEN "FFFD" ELSE str[i]]

\* a string written as UTF-8 (cipher.update(key, 'utf8'), the password of
\* pbkdf2Sync), one element per encoded character: a surrogate pair is one
\* character of four bytes, a lone surrogate is written as U+FFFD
utf8Write(str) ==
    LET Lead(i) == str[i] = "Hi" /\ i < Len(str) /\ str[i + 1] = "Lo"
        Trail(i) == str[i] = "Lo" /\ i > 1 /\ str[i - 1] = "Hi"
        scalar == [i \in 1..Len(str) |->
                      IF Lead(i) THEN "HiLo"
                      ELSE IF Trail(i) THEN "skip"
                      ELSE IF str[i] \in {"Hi", "Lo"} THEN "FFFD"
                      ELSE str[i]]
    IN SelectSeq(scalar, IsByte)

\* UTF-8 read back as a string (decipher.update(.., 'utf8') + final('utf8'))
utf8ToString(bytes) ==
    LET Wide(i) == bytes[i] = "HiLo"
        start(i) == i + Cardinality({j \in 1..(i - 1) : Wide(j)})
        n == Len(bytes) + Cardinality({j \in 1..Len(bytes) : Wide(j)})
    IN [u \in 1..n |->
          LET i == CHOOSE j \in 1..Len(bytes) :
                      start(j) <= u /\ u <= start(j) + (IF Wide(j) THEN 1 ELSE 0)
          IN IF Wide(i) THEN (IF u = start(i) THEN "Hi" ELSE "Lo") ELSE bytes[i]]

\* the key HMAC-SHA256 works with: the password padded with zero bytes to the
\* block length, that is, the password up to its trailing zero bytes (every
\* secret here is shorter than the block)
hmacKey(password) ==
    LET kept == {i \in 1..Len(password) : password[i] # "NUL"}
        n == IF kept = {} THEN 0 ELSE CHOOSE i \in kept : \A j \in kept : j <= i
    IN SubSeq(password, 1, n)

\* crypto.pbkdf2Sync(secret, salt, 100000, 32, 'sha256')
pbkdf2Sync(secret, salt) == [password |-> hmacKey(utf8Write(secret)), salt |-> salt]

\* crypto.randomBytes(n), r-th outcome: a buffer is its content and its length
randomBytes(what, r, n) == [of |-> [random |-> what, n |-> r], len |-> n]

\* buf.toString('hex'): the digits of the bytes, and nothing after them
toHex(buf) == [of |-> buf.of, len |-> buf.len, tail |-> ""]

\* Buffer.from(hex, 'hex'): the bytes of the leading pairs of hexadecimal
\* digits; decoding stops without an error at the first character that is none
fromHex(hex) == [of |-> hex.of, len |-> hex.len]

EnvelopeFields == {"encrypted", "salt", "iv", "authTag"}

\* JSON.stringify of an object of strings
JsonObject(fields) == [json |-> "object", fields |-> fields]

encryptKey(key, secret, r) ==
    LET iv == randomBytes("iv", r, IvBytes)
        salt == randomBytes("salt", r, SaltBytes)
        derivedKey == pbkdf2Sync(secret, salt)
        plain == utf8Write(key)
        encrypted == [of |-> [key |-> derivedKey, iv |-> iv, plain |-> plain],
                      len |-> Len(plain)]
        authTag == [of |-> [key |-> derivedKey, iv |-> iv, data |-> encrypted],
                    len |-> TagBytes]
    IN JsonObject([encrypted |-> toHex(encrypted), salt |-> toHex(salt),
                   iv |-> toHex(iv), authTag |-> toHex(authTag)])

Thrown(name) == [ok |-> FALSE, value |-> <<>>, error |-> name]
Returned(value) == [ok |-> TRUE, value |-> value, error |-> ""]

\* AES-256-GCM decryption of the bytes data under derivedKey and iv
gcmDecrypt(derivedKey, iv, data) ==
    IF /\ "plain" \in DOMAIN data.of
       /\ data.of.key = derivedKey
       /\ data.of.iv = iv
       /\ data.len = Len(data.of.plain)
    THEN data.of.plain
    ELSE <<"garbage">>

\* decryptKey: what it returns, or the error it throws
decryptKey(encryptedData, secret) ==
    IF encryptedData.json = "invalid" THEN Thrown("SyntaxError")
    ELSE IF encryptedData.json = "null" THEN Thrown("TypeError")
    ELSE LET e == encryptedData.fields
             Has(f) == f \in DOMAIN e
         IN IF ~Has("salt") THEN Thrown("TypeError")
            ELSE IF ~Has("iv") THEN Thrown("TypeError")
            ELSE IF fromHex(e.iv).len = 0 THEN Thrown("Invalid initialization vector")
            ELSE IF ~Has("authTag") THEN Thrown("TypeError")
            ELSE IF fromHex(e.authTag).len \notin TagLengths
            THEN Thrown("Invalid authentication tag length")
            ELSE IF ~Has("encrypted") THEN Thrown("TypeError")
            ELSE LET derivedKey == pbkdf2Sync(secret, fromHex(e.salt))
                     iv == fromHex(e.iv)
                     data == fromHex(e.encrypted)
                     tag == [key |-> derivedKey, iv |-> iv, data |-> data]
                 IN IF fromHex(e.authTag).of # tag
                    THEN Thrown("Unsupported state or unable to authenticate data")
                    ELSE Returned(utf8ToString(gcmDecrypt(derivedKey, iv, data)))

\* what can happen to an envelope between encryptKey and decryptKey: a bit of
\* the ciphertext or of the tag is flipped, either is cut short, two characters
\* that are no hexadecimal digits are appended to a field, a field is removed,
\* or the text is replaced by one that is no JSON, or by null
Tamperings ==
    [kind : {"flip"}, field : {"encrypted", "authTag"}, len : {0}]
        \cup [kind : {"truncate"}, field : {"encrypted", "authTag"}, len : 0..(TagBytes - 1)]
        \cup [kind : {"junk", "drop"}, field : EnvelopeFields, len : {0}]
        \cup [kind : {"invalid", "null"}, field : {""}, len : {0}]

Tampered(encryptedData, t) ==
    LET e == encryptedData.fields
    IN CASE t.kind = "invalid" -> [json |-> "invalid"]
         [] t.kind = "null" -> [json |-> "null"]
         [] t.kind = "drop" ->
                JsonObject([f \in DOMAIN e \ {t.field} |-> e[f]])
         [] t.kind = "junk" ->
                JsonObject([e EXCEPT ![t.field].tail = "zz"])
         [] t.kind = "flip" ->
                JsonObject([e EXCEPT ![t.field].of = [flipped |-> @]])
         [] t.kind = "truncate" ->
                JsonObject([e EXCEPT ![t.field].len = t.len])

\* the functions touch nothing of the server
CryptUnchanged ==
    /\ UserUnchanged
    /\ UNCHANGED <<inflight, env, hits, now, last, file, appsCache, cacheTimestamp,
                   nextApp, granted, disk, written, script, bearer>>

\* encryptKey(key, secret) is called; salt and iv are the r-th random outcome
Encrypt(key, secret, r) ==
    /\ crypt.stage = "idle"
    /\ crypt' = [stage |-> "sealed", key |-> key, secret |-> secret,
                 encryptedData |-> encryptKey(key, secret, r),
                 tampering |-> "none", secret2 |-> <<>>, result |-> Thrown(""),
                 body |-> NoCrypt.body, response |-> NoCrypt.response]
    /\ CryptUnchanged

\* the envelope is altered once on its way
Tamper(t) ==
    /\ crypt.stage = "sealed"
    /\ crypt.tampering = "none"
    /\ t.kind = "truncate" => t.len < crypt.encryptedData.fields[t.field].len
    /\ crypt' = [crypt EXCEPT !.encryptedData = Tampered(@, t), !.tampering = t.kind]
    /\ CryptUnchanged

\* decryptKey(encryptedData, secret2) is called
Decrypt(secret2) ==
    /\ crypt.stage = "sealed"
    /\ crypt' = [crypt EXCEPT !.stage = "opened", !.secret2 = secret2,
                              !.result = decryptKey(crypt.encryptedData, secret2)]
    /\ CryptUnchanged

NextCrypto ==
    \/ \E key \in Plaintexts, secret \in Secrets, r \in 1..MaxNonce :
          Encrypt(key, secret, r)
    \/ \E t \in Tamperings : Tamper(t)
    \/ \E secret2 \in Secrets : Decrypt(secret2)

SpecCrypto == InitUser /\ [][NextCrypto]_vars

-----------------------------------------------------------------------------
(* POST /decrypt-test (routes/keys.ts)

   The handler behind validateApiKey and keyRetrievalLimiter. express.json()
   hands it a body that is an object; each of the two fields is a string, is
   absent, or is a JSON value of another type. *)

\* the fields of a body: a string (text), the empty string, no field, a number
AbsentField == [type |-> "missing", text |-> <<>>, envelope |-> [json |-> "null"]]
NumberField == [type |-> "number", text |-> <<>>, envelope |-> [json |-> "null"]]
EmptyField == [type |-> "string", text |-> <<>>, envelope |-> [json |-> "null"]]
SecretField(secret) == [type |-> "string", text |-> secret, envelope |-> [json |-> "null"]]
\* an envelope as a string; the text of a JSON value is never empty
EnvelopeField(encryptedData) == [type |-> "string", text |-> <<"{">>, envelope |-> encryptedData]

\* !x of JavaScript for a field of the body (the number is not 0)
Falsy(field) == field.type = "missing" \/ (field.type = "string" /\ field.text = <<>>)

\* decryptKey called with values that need not be strings: JSON.parse of a
\* number returns the number, whose salt is undefined, and pbkdf2Sync refuses
\* a password that is a number; both throw a TypeError
decryptKeyOfBody(encryptedData, secret) ==
    IF encryptedData.type = "number" THEN Thrown("TypeError")
    ELSE IF secret.type = "number"
    THEN (IF encryptedData.envelope.json = "invalid" THEN Thrown("SyntaxError")
          ELSE Thrown("TypeError"))
    ELSE decryptKey(encryptedData.envelope, secret.text)

PrefixLength == 8

Ellipsis == <<".", ".", ".">>

\* a faulty prefix, against which C25 is tested: the whole plaintext
keyPrefixWhole(decrypted) == decrypted \o Ellipsis

\* decrypted.substring(0, 8) + '...'
keyPrefix(decrypted) ==
    SubSeq(decrypted, 1, IF Len(decrypted) < PrefixLength THEN Len(decrypted)
                         ELSE PrefixLength) \o Ellipsis

\* the handler: the response it sends
decryptTest(body) ==
    IF Falsy(body.encryptedData) \/ Falsy(body.secret)
    THEN [status |-> 400, error |-> "encryptedData and secret are required",
          keyPrefix |-> <<>>]
    ELSE LET decrypted == decryptKeyOfBody(body.encryptedData, body.secret)
         IN IF decrypted.ok
            THEN [status |-> 200, error |-> "", keyPrefix |-> keyPrefix(decrypted.value)]
            ELSE [status |-> 400, error |-> "Decryption failed. Check your secret.",
                  keyPrefix |-> <<>>]

\* plaintexts longer than the prefix: ten characters, and eight characters
\* followed by one outside the basic plane, whose pair the cut splits
LongPlaintexts ==
    {<<"k", "k", "k", "k", "k", "k", "k", "k", "k", "k">>,
     <<"k", "k", "k", "k", "k", "k", "k", "Hi", "Lo">>}

\* a client posts the envelope it holds, or no or another value, with a secret
DecryptTest(encryptedData, secret) ==
    /\ crypt.stage = "sealed"
    /\ crypt' = [crypt EXCEPT
                    !.stage = "tested",
                    !.body = [encryptedData |-> encryptedData, secret |-> secret],
                    !.response = decryptTest([encryptedData |-> encryptedData,
                                              secret |-> secret])]
    /\ CryptUnchanged

\* the alterations tried on the way to the endpoint: of the cuts, those to
\* nothing and to the shortest tag setAuthTag accepts
TestTamperings == {t \in Tamperings : t.kind = "truncate" => t.len \in {0, 4}}

NextTest ==
    \/ \E key \in Plaintexts \cup LongPlaintexts, secret \in Secrets :
          Encrypt(key, secret, 1)
    \/ \E t \in TestTamperings : Tamper(t)
    \/ \E encryptedData \in {EnvelopeField(crypt.encryptedData), AbsentField,
                             EmptyField, NumberField},
          secret \in {SecretField(s) : s \in Secrets} \cup {AbsentField, NumberField} :
          DecryptTest(encryptedData, secret)

SpecTest == InitUser /\ [][NextTest]_vars

-----------------------------------------------------------------------------
(* Both gates, with the keys of both kinds *)

\* the key headers of a request: x-app-key and x-api-key
CrossKeys ==
    {NoKey, ProtoKey} \cup {KsKey(n) : n \in 1..MaxKeys} \cup {AppKey(n) : n \in 1..MaxApps}

CrossHeaders == [xAppKey : {NoKey, AppKey(1)}, xApiKey : CrossKeys]

\* validateAppKey: req.headers['x-app-key'] || req.headers['x-api-key']
appKeyHeader(headers) ==
    IF headers.xAppKey # NoKey THEN headers.xAppKey ELSE headers.xApiKey

NextCross ==
    \/ RegisterStart("alice", "pw1", MASTER_KEY)
    \/ \E r \in Pending : RegisterFinish(r)
    \/ \E o \in RegisterCommands : nextApp < MaxApps /\ RegisterApp(o)
    \/ \E headers \in CrossHeaders :
          /\ Count("keyRetrieval", "10.0.0.5") < MaxUserKeyReqs
          /\ KeysRequest("10.0.0.5", headers.xApiKey, "openai")
    \/ \E headers \in CrossHeaders :
          /\ AppBudget(appKeyHeader(headers))
          /\ AppRequest("10.0.0.5", appKeyHeader(headers), NoOrigin, "openai")

SpecCross == InitUser /\ [][NextCross]_vars

-----------------------------------------------------------------------------
(* Claims *)

\* the api keys in the key table that belong to user objects of username u
KeysOf(u) ==
    {k \in DOMAIN validApiKeys :
        /\ validApiKeys[k] \in DOMAIN userObjs
        /\ userObjs[validApiKeys[k]].username = u}

\* C1: a key retired by a successful rotate-api-key is refused with 401 by
\* the key-retrieval gate from then on, and the key the rotation returned is
\* accepted by the gate and belongs to no retired key.
C1_RotatedKeyRetired ==
    /\ \A k \in retired : validateApiKey(k).status = 401
    /\ (last.op = "keys" /\ last.stale) => last.status = 401
    /\ (last.op = "rotate" /\ last.status = 200) =>
          /\ validateApiKey(last.key).status = 0
          /\ last.key \notin retired

\* C1 witness: after a rotation, a key request with the old key was answered 401
C1_Witness ==
    /\ last.op = "keys" /\ last.stale /\ last.status = 401
    /\ \E uid \in DOMAIN userObjs : validateApiKey(userObjs[uid].apiKey).status = 0

\* C5 (as claimed): a key request is only answered by the key handler (200 or
\* 404) when its api key was in the key table when the gate checked it, and a
\* request with no key or a key not in the table is answered 401.
C5_OnlyStoredKeysPass ==
    last.op = "keys" =>
        /\ last.status \in {200, 404} => last.known
        /\ ~last.known => last.status = 401

\* C9 (as claimed): for every username at most one registration succeeds, and
\* at most one api key exists for it.
C9_OneRegistrationPerUsername ==
    \A u \in Usernames :
        /\ created[u] <= 1
        /\ Cardinality(KeysOf(u)) <= 1

\* C4 (as claimed): every envelope a key-retrieval endpoint releases to a
\* registered principal is encrypted under that principal's own api key.
C4_EnvelopeUnderOwnKey ==
    (last.op \in {"keys", "app"} /\ last.known /\ last.status = 200
        /\ last.secret # NoSecret)
        => last.secret = last.key

C7_CountsEveryKeyRequest ==
    [][\A ip \in ClientIPs, k \in UserKeyHeaders, route \in KeyRoutes :
          KeysRequest(ip, k, route) =>
              Count("keyRetrieval", ip)' = Count("keyRetrieval", ip) + 1]_vars

\* the App record the gate found for the key of the last app request (the
\* request left it in the cache)
LastApp == appsCache.apps[last.key]

\* C2: a request of an authenticated App (its key is in the configuration the
\* gate loaded and has not expired) for the key of a service its permissions
\* do not grant is answered 403 and carries no envelope, whatever its address
\* and origin.
C2_PermissionGate ==
    (/\ last.op = "app" /\ last.known
     /\ ~Expired(LastApp)
     /\ last.route \in Services
     /\ last.route \notin LastApp.permissions)
        => /\ last.status = 403
           /\ last.envelopes = {}
           /\ last.secret = NoSecret

\* C2 witness: an App that passed the gate was refused the key of a service
\* it has no permission for
C2_Witness ==
    /\ last.op = "app" /\ last.known
    /\ last.route \in Services
    /\ last.status = 403
    /\ last.error = "App does not have permission"
    /\ last.key \in DOMAIN file
    /\ last.route \notin file[last.key].permissions
    /\ file[last.key].accessCount >= 1

\* C3: a request of an authenticated App whose allowedIPs is not empty, from
\* an address that is not in it, is answered 403 and carries no envelope; a
\* request of an App whose allowedIPs is empty is never refused for its address.
C3_IpWhitelist ==
    (last.op = "app" /\ last.known /\ ~Expired(LastApp))
        => /\ (LastApp.allowedIPs # {} /\ last.ip \notin LastApp.allowedIPs)
                  => /\ last.status = 403
                     /\ last.envelopes = {}
                     /\ last.secret = NoSecret
           /\ LastApp.allowedIPs = {}
                  => last.error # "Access denied from this IP"

\* C3 witness: an App with an IP whitelist and the permission for the service
\* asked for it from an address outside the list, and was refused
C3_Witness ==
    /\ last.op = "app" /\ last.known
    /\ last.status = 403
    /\ last.error = "Access denied from this IP"
    /\ last.key \in DOMAIN file
    /\ file[last.key].allowedIPs # {}
    /\ last.ip \notin file[last.key].allowedIPs
    /\ last.route \in file[last.key].permissions

\* C8 (as claimed): within one window of its rate limit, no more than
\* maxRequests requests of an App are let through.
C8_PerAppRateLimit ==
    \A k \in DOMAIN granted : granted[k].count <= granted[k].max

\* C10 (as claimed): after a revoke of a name that succeeded, the file holds
\* no record of that name.
C10_RevokeRemovesAll ==
    [][\A name \in AppNames :
          (RevokeApp(name) /\ last'.status = 0)
              => \A k \in DOMAIN file' : file'[k].name # name]_vars

\* C11 (as claimed): the record of a revoked App is not in the file again, and
\* every request made with the key of a revoked App is answered 401.
C11_RevokedStaysRevoked ==
    /\ \A k \in DOMAIN written : Revoked(k) => k \notin DOMAIN file
    /\ (last.op = "app" /\ last.stale) => last.status = 401

\* C12 (as claimed): a request made CACHE_TTL or more after the script
\* registered or revoked an App is answered from a view that holds the change:
\* the key of a registered App is not unknown, the key of a revoked one is
\* refused.
C12_CacheLagBounded ==
    [][\A k \in DOMAIN written :
          (/\ AppRequest("10.0.0.5", k, NoOrigin, "status")
           /\ now - written[k].at >= CACHE_TTL)
              => IF written[k].op = "revoke"
                 THEN last'.status = 401
                 ELSE last'.error # "Invalid app API key"]_vars

\* C13 (as claimed): when registerApp has returned an App the file holds its
\* record, and the cache never holds an access count of an App that the file
\* does not hold.
C13_DurableBeforeAck ==
    /\ (last.op = "registerApp" /\ last.status = 0) => last.key \in DOMAIN file
    /\ \A k \in DOMAIN appsCache.apps :
          k \in DOMAIN file => appsCache.apps[k].accessCount <= file[k].accessCount

\* history: this step is a request of the App of key k that passed the gate
Passes(k) ==
    /\ k \in DOMAIN granted'
    /\ (k \notin DOMAIN granted \/ granted'[k] # granted[k])

\* C14 (as claimed): the persisted access count of an App grows by one with
\* every request of the App that passes the gate, and no other step changes it.
C14_AccessCountNeverLost ==
    [][\A k \in DOMAIN file \cap DOMAIN file' :
          file'[k].accessCount = file[k].accessCount + (IF Passes(k) THEN 1 ELSE 0)]_vars

\* C15 (as claimed): every request of an authenticated App (its key is in the
\* configuration the gate loaded and has not expired) adds one to the App's
\* accessCount, sets its lastAccess and persists the record, whether or not
\* the address, the origin or the permission then lets the request through.
C15_CountedBeforeAuthorization ==
    [][\A x \in AppRequests :
          (/\ AppRequest(x[1], x[2], x[3], x[4])
           /\ x[2] \in DOMAIN LoadApps
           /\ ~Expired(LoadApps[x[2]]))
              => /\ x[2] \in DOMAIN file'
                 /\ file'[x[2]].accessCount = LoadApps[x[2]].accessCount + 1
                 /\ file'[x[2]].lastAccess = now]_vars

\* C16: a request with the key of an App whose expiresAt is set and lies in
\* the past is answered 401, carries no envelope and secret, and changes
\* neither the persisted records nor the App's accessCount and lastAccess in
\* the server's configuration; a request with the key of an App that has no
\* expiresAt is never answered as expired.
C16_ExpiredNeverAuthenticated ==
    [][(/\ now' = now
        /\ last'.op = "app"
        /\ last'.key \in DOMAIN LoadApps)
          => LET app == LoadApps[last'.key]
             IN /\ (app.expiresAt # NoDate /\ app.expiresAt < now)
                      => /\ last'.status = 401
                         /\ last'.envelopes = {}
                         /\ last'.secret = NoSecret
                         /\ file' = file
                         /\ granted' = granted
                         /\ last'.key \in DOMAIN appsCache'.apps
                         /\ appsCache'.apps[last'.key].accessCount = app.accessCount
                         /\ appsCache'.apps[last'.key].lastAccess = app.lastAccess
                /\ app.expiresAt = NoDate
                      => last'.error # "App API key expired"]_vars

\* C16 witness: an App that was served before its expiry was refused as
\* expired afterwards, its count still that of the one served request
C16_Witness ==
    /\ last.op = "app"
    /\ last.status = 401
    /\ last.error = "App API key expired"
    /\ last.key \in DOMAIN file
    /\ file[last.key].expiresAt # NoDate
    /\ file[last.key].expiresAt < now
    /\ file[last.key].accessCount = 1

\* C17 (as claimed): a request without Origin and Referer header, with the key
\* of an authenticated App whose allowedDomains is not empty, is answered 403
\* when NODE_ENV is production, and is not refused for its domain otherwise.
C17_AbsentOriginInProduction ==
    [][\A x \in AppRequests :
          (/\ AppRequest(x[1], x[2], x[3], x[4])
           /\ x[3] = NoOrigin
           /\ x[2] \in DOMAIN LoadApps
           /\ ~Expired(LoadApps[x[2]])
           /\ LoadApps[x[2]].allowedDomains # {})
              => IF env.nodeEnv = "production"
                 THEN last'.status = 403
                 ELSE last'.error # "Access denied from this domain"]_vars

\* the envelope was opened as encryptKey made it, with the secret it was made with
RoundTrip ==
    /\ crypt.stage = "opened"
    /\ crypt.tampering = "none"
    /\ crypt.secret2 = crypt.secret

\* C18 (as claimed): for every plaintext and secret,
\* decryptKey(encryptKey(P, S), S) returns P.
C18_RoundTripAll ==
    RoundTrip => (crypt.result.ok /\ crypt.result.value = crypt.key)

\* C18 (amended): for every secret and every plaintext that has no lone
\* surrogate, decryptKey(encryptKey(P, S), S) returns P.
C18_RoundTrip ==
    (RoundTrip /\ WellFormed(crypt.key))
        => (crypt.result.ok /\ crypt.result.value = crypt.key)

\* C18 witness: a plaintext with a character outside the basic plane came
\* back from a round trip under a secret that is not empty
C18_Witness ==
    /\ RoundTrip
    /\ crypt.key = <<"Hi", "Lo">>
    /\ crypt.secret # <<>>
    /\ crypt.result.ok
    /\ crypt.result.value = <<"Hi", "Lo">>

\* C19 (as claimed): when the ciphertext or the tag of the envelope differs
\* from what encryptKey produced, or a field of the envelope is missing or
\* malformed, decryptKey throws and returns nothing.
C19_FailsClosed ==
    (crypt.stage = "opened" /\ crypt.tampering # "none") => ~crypt.result.ok

\* C20 (as claimed): for secrets S1 # S2, decryptKey(encryptKey(P, S1), S2)
\* throws.
C20_WrongSecretRejected ==
    (/\ crypt.stage = "opened"
     /\ crypt.tampering = "none"
     /\ crypt.secret2 # crypt.secret)
        => ~crypt.result.ok

\* the user registry, the key table and the suspended handlers are as before
NoHandlerRan == UNCHANGED <<users, userObjs, validApiKeys, nextUid, nextKey, inflight,
                            retired, created>>

\* C21 (as claimed): once the global limiter has admitted max requests of a
\* client in the current window, every further request of that client in the
\* window, on whatever route, is answered 429, and no authentication and no
\* handler runs and nothing of the registry changes.
C21_GlobalLimitOnAllRoutes ==
    [][\A x \in ChainRequests :
          (/\ HttpRequest(x[1], x[2], x[3], x[4], x[5])
           /\ Admitted("global", x[1]) >= max("global"))
              => (last'.status = 429 /\ NoHandlerRan)]_vars

AuthCounted(ip) ==
    /\ <<"auth", ip>> \in DOMAIN hits'
    /\ hits'[<<"auth", ip>>].count = Count("auth", ip) + 1

C24_BearerGate ==
    bearer.header.scheme # "none" =>
        LET token == bearer.header.token
            dayMs == 24 * 60 * 60 * 1000
        IN /\ bearer.status \in {0, 401}
           /\ bearer.status = 0 =>
                 /\ bearer.header.scheme = "Bearer "
                 /\ token.form = "jwt"
                 /\ token.key = JWT_SECRET
                 /\ token.intact
                 /\ bearer.at - token.issuedAt < dayMs
                 /\ bearer.user = [userId |-> token.userId, username |-> token.username]
           /\ (\/ bearer.header.scheme = ""
               \/ token.form # "jwt"
               \/ token.key # JWT_SECRET
               \/ ~token.intact
               \/ token.exp <= bearer.at \div 1000)
                 => (bearer.status = 401 /\ bearer.user = NoUser)

\* C24 witness: a token issued half a day or more before was accepted, and
\* its user attached
C24_Witness ==
    /\ bearer.header.scheme = "Bearer "
    /\ bearer.status = 0
    /\ bearer.user.username = "alice"
    /\ bearer.at - bearer.header.token.issuedAt >= 12 * 60 * 60 * 1000

\* C25: on POST /decrypt-test a body without encryptedData or without secret
\* is answered 400; whenever decryptKey throws (the secret does not fit, the
\* envelope was altered or is no JSON, a field is no string) the answer is 400
\* and not 500; the answer is 200 only when decryptKey returned, and then it
\* carries the first eight characters of the plaintext (all of it when it has
\* no more) followed by '...', and nothing else of it.
C25_DecryptTest ==
    crypt.stage = "tested" =>
        LET body == crypt.body
            response == crypt.response
            decrypted == decryptKeyOfBody(body.encryptedData, body.secret)
        IN /\ response.status \in {200, 400}
           /\ (body.encryptedData.type = "missing" \/ body.secret.type = "missing")
                 => response.status = 400
           /\ (~Falsy(body.encryptedData) /\ ~Falsy(body.secret) /\ ~decrypted.ok)
                 => (response.status = 400 /\ response.keyPrefix = <<>>)
           /\ response.status = 200 =>
                 /\ body.encryptedData.type = "string"
                 /\ body.secret.type = "string"
                 /\ decrypted.ok
                 /\ Len(response.keyPrefix) <= PrefixLength + 3
                 /\ \E n \in 0..PrefixLength :
                       /\ n <= Len(decrypted.value)
                       /\ response.keyPrefix = SubSeq(decrypted.value, 1, n) \o Ellipsis
                 /\ (crypt.tampering = "none" /\ WellFormed(crypt.key))
                       => decrypted.value = crypt.key

\* C25 witness: an envelope of a plaintext of ten characters was tested with
\* its secret and answered 200 with the first eight
C25_Witness ==
    /\ crypt.stage = "tested"
    /\ crypt.response.status = 200
    /\ Len(crypt.key) = 10
    /\ crypt.response.keyPrefix = SubSeq(crypt.key, 1, 8) \o Ellipsis

\* C26: no key identifies two principals: the User key table holds only ks_
\* keys and the App registry only app_ keys, so no key is in both; a request
\* at the User gate with a key of the App registry is answered 401, and so is
\* a request at the App gate with a key of the User key table, in whichever of
\* the two headers the App gate reads it.
C26_KeysOfOneKind ==
    /\ \A k \in DOMAIN validApiKeys : k.kind = "ks"
    /\ \A k \in DOMAIN file \cup DOMAIN appsCache.apps : k.kind = "app"
    /\ DOMAIN validApiKeys \cap (DOMAIN file \cup DOMAIN appsCache.apps) = {}
    /\ (last.op = "keys" /\ (last.key.kind = "app" \/ last.key \in DOMAIN file))
          => last.status = 401
    /\ (last.op = "app" /\ (last.key.kind = "ks" \/ last.key \in DOMAIN validApiKeys))
          => last.status = 401

\* C26 witness: with a User and an App registered, the User's current key was
\* presented at the App gate and refused
C26_Witness ==
    /\ last.op = "app"
    /\ last.key \in DOMAIN validApiKeys
    /\ last.status = 401
    /\ DOMAIN file # {}

\* C27: the answer of GET /keys/all to an App holds an envelope for a service
\* only if the App's permission for the service is true and the key of the
\* service is configured, and never one for a service whose permission is
\* false; when the request passed the gate and no service qualifies, the
\* answer is 404 without envelope.
C27_AllPermittedKeys ==
    (last.op = "app" /\ last.route = "all" /\ last.known)
        => /\ last.envelopes \subseteq LastApp.permissions
           /\ last.envelopes \subseteq env.configured
           /\ last.status = 200
                 => (last.envelopes # {} /\ last.secret = LastApp.apiKey)
           /\ last.status # 200 => (last.envelopes = {} /\ last.secret = NoSecret)
           /\ (/\ ~Expired(LastApp)
               /\ IpAllowed(LastApp, last.ip)
               /\ LastApp.permissions \cap env.configured = {})
                 => (last.status = 404 /\ last.error = "No accessible keys for this app")

\* C27 witness: with both service keys configured, an App permitted openai
\* only got the openai envelope alone
C27_Witness ==
    /\ last.op = "app" /\ last.route = "all" /\ last.known
    /\ last.status = 200
    /\ env.configured = Services
    /\ LastApp.permissions = {"openai"}
    /\ last.envelopes = {"openai"}

\* an App whose only permitted service has no key configured was answered 404
C27_WitnessNone ==
    /\ last.op = "app" /\ last.route = "all" /\ last.known
    /\ last.status = 404
    /\ LastApp.permissions # {}

\* C28: a request with the key of an App whose allowedDomains is not empty,
\* declaring an origin, is let through the gate only if the origin contains an
\* entry of the list as a substring; when it contains none (and the key has
\* not expired and the address is allowed) the request is answered 403 'Access
\* denied from this domain', carries no envelope, and neither the persisted
\* records nor the App's accessCount and lastAccess change.
C28_DomainAllowList ==
    [][(/\ now' = now
        /\ last'.op = "app"
        /\ last'.key \in DOMAIN LoadApps)
          => LET app == LoadApps[last'.key]
                 contained == \E domain \in app.allowedDomains :
                                  Includes(last'.origin, domain)
             IN (app.allowedDomains # {} /\ last'.origin # NoOrigin)
                   => /\ last'.status \notin {401, 403} => contained
                      /\ (/\ ~contained
                          /\ ~(app.expiresAt # NoDate /\ app.expiresAt < now)
                          /\ (app.allowedIPs = {} \/ last'.ip \in app.allowedIPs))
                            => /\ last'.status = 403
                               /\ last'.error = "Access denied from this domain"
                               /\ last'.envelopes = {}
                               /\ last'.secret = NoSecret
                               /\ file' = file
                               /\ granted' = granted
                               /\ last'.key \in DOMAIN appsCache'.apps
                               /\ appsCache'.apps[last'.key].accessCount = app.accessCount
                               /\ appsCache'.apps[last'.key].lastAccess = app.lastAccess]_vars

\* C28 witness: an App with a domain list was served once, and a request
\* from an origin that contains no entry was then refused, the count still 1
C28_Witness ==
    /\ last.op = "app"
    /\ last.origin = EvilOrigin
    /\ last.status = 403
    /\ last.error = "Access denied from this domain"
    /\ last.key \in DOMAIN file
    /\ file[last.key].allowedDomains = {MyDomain}
    /\ file[last.key].accessCount = 1

\* a request whose origin contains the entry in its middle was served
C28_WitnessSubstring ==
    /\ last.op = "app"
    /\ last.origin = TrickyOrigin
    /\ last.status = 200

\* C29 (as claimed): in every reachable state the key table holds, for every
\* registered user, exactly one key mapped to the user's id, which is the
\* apiKey of the user's record, and it holds no key mapped to anything but
\* the id of a record of the registry.
C29_KeyTableMatchesRegistry ==
    /\ \A u \in Usernames :
          users[u] # 0 =>
              {k \in DOMAIN validApiKeys : validApiKeys[k] = users[u]}
                  = {userObjs[users[u]].apiKey}
    /\ \A k \in DOMAIN validApiKeys :
          \E u \in Usernames : users[u] # 0 /\ validApiKeys[k] = users[u]

\* C30 (as claimed): a registration whose write succeeds adds one record
\* under a fresh key, with a fresh id, accessCount 0, environment production
\* and, without --rate-limit, the rateLimit {60000, 30}, and every record that
\* was in apps.json before is in it unchanged afterwards, also when reading
\* apps.json failed at the start of the registration.
C30_RegisterKeepsRecords ==
    [][(nextApp' = nextApp + 1 /\ disk # "writefail")
          => /\ AppKey(nextApp') \notin DOMAIN file
             /\ DOMAIN file' = DOMAIN file \cup {AppKey(nextApp')}
             /\ \A k \in DOMAIN file : file'[k] = file[k]
             /\ file'[AppKey(nextApp')].id = nextApp'
             /\ file'[AppKey(nextApp')].accessCount = 0
             /\ file'[AppKey(nextApp')].environment = "production"
             /\ file'[AppKey(nextApp')].rateLimit.maxRequests >= 1]_vars

\* the messages of the rejections of validateAppKey
GateErrors ==
    {"App API key required", "Invalid app API key", "App API key expired",
     "Access denied from this IP", "Access denied from this domain"}

\* this step is an App request that validateAppKey rejected
GateRejects == now' = now /\ last'.op = "app" /\ last'.error \in GateErrors

\* C31 (as claimed): an App request rejected by the gate writes nothing to
\* apps.json, changes no accessCount and lastAccess, and does not refresh the
\* cache timestamp.
C31_RejectionTouchesNothing ==
    [][GateRejects
          => /\ file' = file
             /\ cacheTimestamp' = cacheTimestamp
             /\ \A k \in DOMAIN appsCache.apps :
                   /\ k \in DOMAIN appsCache'.apps
                   /\ appsCache'.apps[k].accessCount = appsCache.apps[k].accessCount
                   /\ appsCache'.apps[k].lastAccess = appsCache.apps[k].lastAccess]_vars

\* C31 (amended): an App request rejected by the gate writes nothing to
\* apps.json and counts no access; the server's configuration and its cache
\* timestamp change only when the request carried a key and the cache was not
\* loaded or older than CACHE_TTL, and then the configuration becomes the
\* content of apps.json and the timestamp the time of the request.
C31_RejectionKeepsRegistry ==
    [][GateRejects
          => /\ file' = file
             /\ granted' = granted
             /\ (appsCache' # appsCache \/ cacheTimestamp' # cacheTimestamp)
                   => /\ last'.error # "App API key required"
                      /\ ~(appsCache.loaded /\ now - cacheTimestamp < CACHE_TTL)
                      /\ appsCache' = [loaded |-> TRUE, apps |-> file]
                      /\ cacheTimestamp' = now]_vars

\* C31 witness: no request of an App was ever let through, and a request with
\* an unknown key, made after the cache had aged, refreshed the timestamp
C31_Witness ==
    /\ last.op = "app"
    /\ last.error = "Invalid app API key"
    /\ now > 0
    /\ cacheTimestamp = now
    /\ appsCache.loaded
    /\ DOMAIN file # {}
    /\ \A k \in DOMAIN file : file[k].accessCount = 0

\* this step leaves the registry's usernames, the key table and the apiKey
\* and passwordHash of every user object as they are
KeysAndHashesKept ==
    /\ validApiKeys' = validApiKeys
    /\ users' = users
    /\ DOMAIN userObjs' = DOMAIN userObjs
    /\ \A uid \in DOMAIN userObjs :
          /\ userObjs'[uid].apiKey = userObjs[uid].apiKey
          /\ userObjs'[uid].passwordHash = userObjs[uid].passwordHash

\* C32: a step changes the key table or the apiKey or passwordHash of a user
\* only if it is a register answered 201 or a rotate-api-key answered 200; a
\* step that answers a login, or that answers 400, 401, 403 or 409 to a
\* register, login or rotate-api-key, leaves them unchanged.
C32_OnlySuccessChangesKeys ==
    [][/\ ~KeysAndHashesKept
          => /\ last' # last
             /\ \/ last'.op = "register" /\ last'.status = 201
                \/ last'.op = "rotate" /\ last'.status = 200
       /\ (/\ last'.op \in {"register", "login", "rotate"}
           /\ (last'.op = "login" \/ last'.status \in {400, 401, 403, 409}))
          => KeysAndHashesKept]_vars

\* C32 witness: a login was answered 200 with the key the user had, which is
\* still the only key of the table
C32_Witness ==
    /\ last.op = "login"
    /\ last.status = 200
    /\ users["alice"] # 0
    /\ last.key = userObjs[users["alice"]].apiKey
    /\ DOMAIN validApiKeys = {last.key}

\* a rotation with a wrong password was answered 401 and the key is in place
C32_WitnessRefused ==
    /\ last.op = "rotate"
    /\ last.status = 401
    /\ users["alice"] # 0
    /\ DOMAIN validApiKeys = {userObjs[users["alice"]].apiKey}

\* every gate on the trail either sent one response and was the last to act,
\* or called next() once; none raised an exception and none acted twice
OneOutcome(trail) ==
    /\ \A i \in 1..Len(trail) : trail[i].did \in {"send", "next"}
    /\ \A i \in 1..Len(trail) : trail[i].did = "send" => i = Len(trail)
    /\ \A i, j \in 1..Len(trail) : trail[i].gate = trail[j].gate => i = j

\* C33 (as claimed): each of validateApiKey, validateJWT, validateAppKey and
\* checkAppPermission, for every request that comes to it, either sends one
\* rejection and does not pass the request on, or passes it on once without
\* sending a response.
C33_OneOutcomePerGate ==
    /\ OneOutcome(last.trail)
    /\ OneOutcome(bearer.trail)

====
